---- MODULE Spec2Model ----
(***************************************************************************)
(* One invocation of either command-line adapter of grym-synth:            *)
(*   adapter 1 = src/scripts/audioldm_operations.py                         *)
(*   adapter 2 = src/scripts/wav2vec2_operations.py                         *)
(* A behaviour is one process run: main() from argument parsing to exit.    *)
(* Third-party calls (argparse, json, torch, soundfile, the model           *)
(* libraries) are modelled by their outcome: success or a raised exception, *)
(* chosen nondeterministically where the call is made.                      *)
(***************************************************************************)
EXTENDS Integers, Sequences, FiniteSets

VARIABLES
    adapter,        \* which script runs: 1 (audioldm) or 2 (wav2vec2)
    argv,           \* the command line: operation, request_id, params text / audio path
    cuda,           \* torch.cuda.is_available() in this process
    pc,             \* position of main()
    params,         \* adapter 1: json.loads(args.params)
    model,          \* the model handle returned by load_model
    result,         \* the handler's result mapping
    downstream,     \* the audio array handed to the step after sf.read
    feature_list,   \* adapter 2: the pooled hidden state as a list (line 59)
    stdout,         \* the JSON objects printed so far
    exit_code,      \* the process exit status once decided
    trace           \* the calls made so far, in order, with their outcome

vars == <<adapter, argv, cuda, pc, params, model, result, downstream,
          feature_list, stdout, exit_code, trace>>

----------------------------------------------------------------------------
(* Bounds of the model *)

MaxFrames == 2
MaxChannels == 2
MaxFeatures == 22

(* Program constants *)

FeatureSample == 20
ArgparseExit == 2

----------------------------------------------------------------------------
(* Values *)

None == "None"
NoResult == [unset |-> TRUE]
RequestIds == {"r1", "r2"}
BadOperation == "bogus"

Choices1 == {"test-env", "load-model", "generate", "read-audio"}
Choices2 == {"process", "analyze"}

\* faulty variant: no choices= restriction on --operation
ChoicesUnchecked(a) == Choices1 \cup Choices2 \cup {BadOperation}

\* argparse choices= of the running adapter
Choices(a) == IF a = 1 THEN Choices1 ELSE Choices2

\* Python mappings are functions from keys to values
EmptyDict == [k \in {} |-> None]
SetItem(d, k, v) == [x \in (DOMAIN d) \cup {k} |-> IF x = k THEN v ELSE d[x]]

\* dict.get(key, default)
Get(d, k, default) == IF k \in DOMAIN d THEN d[k] ELSE default

\* The JSON objects a caller may pass as --params
ParamObjects ==
    { [k \in ks |-> IF k = "quantization" THEN q ELSE h] :
        ks \in SUBSET {"quantization", "use_half_precision"},
        q \in {"none", "8bit", "4bit", "16bit"},
        h \in BOOLEAN }

\* The --params texts: not JSON at all, JSON that is no object, a JSON object
ParamsTexts ==
    {[json |-> "malformed"], [json |-> "array"]}
        \cup {[json |-> "object", value |-> o] : o \in ParamObjects}

\* json.loads: raises on malformed text, otherwise the decoded value
JsonLoads(text) ==
    CASE text.json = "malformed" -> [ok |-> FALSE]
      [] text.json = "array"     -> [ok |-> TRUE, is_dict |-> FALSE]
      [] text.json = "object"    -> [ok |-> TRUE, is_dict |-> TRUE, value |-> text.value]

----------------------------------------------------------------------------
(* Audio as soundfile returns it: a 1-D array of samples for a one-channel  *)
(* file, a 2-D array frames x channels otherwise.                           *)

SampleValues == {0, 1}

SeqsOfLen(S, n) == [1..n -> S]

MonoArrays ==
    UNION { { [ndim |-> 1, data |-> d] : d \in SeqsOfLen(SampleValues, n) } :
            n \in 0..MaxFrames }

MultiArrays ==
    UNION { { [ndim |-> 2, channels |-> c, data |-> d] :
                d \in SeqsOfLen(SeqsOfLen(SampleValues, c), n) } :
            n \in 0..MaxFrames, c \in 2..MaxChannels }

AudioArrays == MonoArrays \cup MultiArrays

\* sample rates a file may carry
SampleRates == {16000, 44100}

RECURSIVE SumSeq(_)
SumSeq(s) == IF s = <<>> THEN 0 ELSE Head(s) + SumSeq(Tail(s))

\* np.mean over the channel axis: one exact mean per frame
MeanAxis1(a) ==
    [ndim |-> 1,
     data |-> [i \in 1..Len(a.data) |->
                  [num |-> SumSeq(a.data[i]), den |-> Len(a.data[i])]]]

\* read_audio_file lines 93-95
NeedsDownmix(a) == a.ndim > 1 /\ a.channels > 1

ToMono(a) == IF NeedsDownmix(a) THEN MeanAxis1(a) ELSE a

\* faulty variant: the whole list is returned
SliceWhole(s, n) == s

\* feature_list[:20]
Slice(s, n) == SubSeq(s, 1, IF Len(s) < n THEN Len(s) ELSE n)

\* Pooled feature vectors the model may return
FeatureVectors ==
    { [i \in 1..n |-> (i * p) % 5] : n \in 0..MaxFeatures, p \in 1..2 }

----------------------------------------------------------------------------
(* load_model of adapter 1, lines 15-45 *)

QuantizationConfig(quantization) ==
    CASE quantization = "8bit" -> "load_in_8bit"
      [] quantization = "4bit" -> "load_in_4bit"
      [] OTHER -> None

Device(available) == IF available THEN "cuda" ELSE "cpu"

\* faulty variant: half precision without looking at the quantization
HalfAppliedWithQuantization(use_half_precision, quantization, device) ==
    use_half_precision /\ device = "cuda"

HalfApplied(use_half_precision, quantization, device) ==
    use_half_precision /\ quantization = "none" /\ device = "cuda"

\* has_checkpointing: hasattr(model, 'enable_gradient_checkpointing'), line 42
AudioLDMHandle(quantization, use_half_precision, available, has_checkpointing) ==
    [device |-> Device(available),
     quantization_config |-> QuantizationConfig(quantization),
     half |-> HalfApplied(use_half_precision, quantization, Device(available)),
     gradient_checkpointing |-> has_checkpointing]

----------------------------------------------------------------------------
(* Bookkeeping shared by the actions *)

Call(name, ok) == [call |-> name, ok |-> ok]

Log(entries) == trace' = trace \o entries

\* print(json.dumps(obj))
Emit(obj) == stdout' = Append(stdout, obj)

\* the except clause of main: error envelope with the request id, sys.exit(1)
ExceptHandler(message) ==
    /\ Emit([error |-> message, request_id |-> argv.request_id])
    /\ exit_code' = 1
    /\ pc' = "exiting"

\* faulty variant: read-audio loads the model too
NeedsModelForRead(operation) == operation \in {"load-model", "generate", "read-audio"}

\* which operations of adapter 1 call load_model (lines 160, 168)
NeedsModel(operation) == operation \in {"load-model", "generate"}

\* faulty variant: the result is printed untagged
InjectNothing(r, rid) == r

\* result['request_id'] = args.request_id
InjectRequestId(r, rid) == SetItem(r, "request_id", rid)

\* status of a main() that returns normally
NormalExit == 0

----------------------------------------------------------------------------
Init ==
    /\ adapter \in {1, 2}
    /\ cuda \in BOOLEAN
    /\ argv \in
         IF adapter = 1
         THEN [operation : Choices1 \cup {BadOperation},
               request_id : RequestIds,
               params : ParamsTexts]
         ELSE [operation : Choices2 \cup {BadOperation},
               request_id : RequestIds,
               audio : {"in.wav"}]
    /\ pc = "parse_args"
    /\ params = None
    /\ model = None
    /\ result = NoResult
    /\ downstream = None
    /\ feature_list = None
    /\ stdout = <<>>
    /\ exit_code = None
    /\ trace = <<>>

\* parser.parse_args(): an operation outside choices= ends the process with
\* status 2 and a usage message on standard error
ParseArgs ==
    /\ pc = "parse_args"
    /\ IF argv.operation \in Choices(adapter)
       THEN /\ Log(<<Call("parse_args", TRUE)>>)
            /\ pc' = IF adapter = 1 THEN "json_loads" ELSE "load_model"
            /\ UNCHANGED exit_code
       ELSE /\ Log(<<Call("parse_args", FALSE)>>)
            /\ exit_code' = ArgparseExit
            /\ pc' = "exiting"
    /\ UNCHANGED <<adapter, argv, cuda, params, model, result, downstream,
                   feature_list, stdout>>

\* adapter 1 line 151, outside the try: a JSONDecodeError is not caught, the
\* interpreter prints a traceback on standard error and exits with status 1
ParseParams ==
    /\ pc = "json_loads"
    /\ LET r == JsonLoads(argv.params) IN
         IF r.ok
         THEN /\ params' = r
              /\ Log(<<Call("json_loads", TRUE)>>)
              /\ pc' = "dispatch"
              /\ UNCHANGED exit_code
         ELSE /\ Log(<<Call("json_loads", FALSE)>>)
              /\ exit_code' = 1
              /\ pc' = "exiting"
              /\ UNCHANGED params
    /\ UNCHANGED <<adapter, argv, cuda, model, result, downstream, feature_list, stdout>>

\* adapter 1 lines 153-187: the if/elif chain up to the first call. The
\* arguments of load_model and read_audio_file are read with params.get, which
\* raises inside the try when params is not a mapping.
Dispatch ==
    /\ pc = "dispatch"
    /\ result' = EmptyDict
    /\ IF argv.operation = "test-env"
       THEN /\ pc' = "test_environment"
            /\ UNCHANGED <<stdout, exit_code, trace>>
       ELSE IF NeedsModel(argv.operation) \/ argv.operation = "read-audio"
       THEN IF params.is_dict
            THEN /\ pc' = IF NeedsModel(argv.operation)
                          THEN "load_model" ELSE "read_audio_file"
                 /\ UNCHANGED <<stdout, exit_code, trace>>
            ELSE /\ Log(<<Call("params_get", FALSE), Call("print", TRUE)>>)
                 /\ ExceptHandler("no attribute get")
       ELSE /\ pc' = "encode"
            /\ UNCHANGED <<stdout, exit_code, trace>>
    /\ UNCHANGED <<adapter, argv, cuda, params, model, downstream, feature_list>>

\* adapter 1 load_model, lines 15-49: its own except prints {"error"} and
\* calls sys.exit(1); SystemExit is not an Exception, so main's except clause
\* does not see it
load_model_audioldm ==
    /\ pc = "load_model" /\ adapter = 1
    /\ \E ok \in BOOLEAN, has_checkpointing \in BOOLEAN :
         IF ok
         THEN /\ model' = AudioLDMHandle(Get(params.value, "quantization", "8bit"),
                                         Get(params.value, "use_half_precision", TRUE),
                                         cuda, has_checkpointing)
              /\ Log(<<Call("load_model", TRUE)>>)
              /\ IF argv.operation = "generate"
                 THEN /\ pc' = "generate_audio"
                      /\ UNCHANGED result
                 ELSE /\ pc' = "encode"
                      /\ result' = [status |-> "Model loaded successfully"]
              /\ UNCHANGED <<stdout, exit_code>>
         ELSE /\ Log(<<Call("load_model", FALSE), Call("print", TRUE)>>)
              /\ Emit([error |-> "load failed"])
              /\ exit_code' = 1
              /\ pc' = "exiting"
              /\ UNCHANGED <<model, result>>
    /\ UNCHANGED <<adapter, argv, cuda, params, downstream, feature_list>>

\* adapter 1 test_environment, lines 117-141
test_environment ==
    /\ pc = "test_environment"
    /\ \E ok \in BOOLEAN :
         /\ result' = IF ok
                      THEN [status |-> "ok", cuda_available |-> cuda,
                            gpu_info |-> IF cuda THEN "gpu0" ELSE "none"]
                      ELSE [error |-> "probe failed"]
         /\ Log(<<Call("test_environment", ok)>>)
    /\ pc' = "encode"
    /\ UNCHANGED <<adapter, argv, cuda, params, model, downstream, feature_list,
                   stdout, exit_code>>

\* adapter 1 generate_audio, lines 51-86; sample_rate and duration are the
\* values handed in by the caller, carried here by name
generate_audio ==
    /\ pc = "generate_audio"
    /\ \E ok \in BOOLEAN :
         /\ result' = IF ok
                      THEN [path |-> "out.wav", sample_rate |-> "sample_rate",
                            duration |-> "duration"]
                      ELSE [error |-> "generation failed"]
         /\ Log(<<Call("generate_audio", ok)>>)
    /\ pc' = "encode"
    /\ UNCHANGED <<adapter, argv, cuda, params, model, downstream, feature_list,
                   stdout, exit_code>>

\* adapter 1 read_audio_file, lines 88-115
read_audio_file ==
    /\ pc = "read_audio_file"
    /\ \/ /\ result' = [error |-> "read failed"]
          /\ Log(<<Call("read_audio_file", FALSE), Call("sf_read", FALSE)>>)
          /\ UNCHANGED downstream
       \/ \E audio \in AudioArrays, sample_rate \in SampleRates, ok \in BOOLEAN :
            /\ downstream' = ToMono(audio)
            /\ result' = IF ok
                         THEN [audio_data |-> <<"npy_base64", ToMono(audio)>>,
                               sample_rate |-> sample_rate,
                               duration |-> [num |-> Len(ToMono(audio).data),
                                             den |-> sample_rate]]
                         ELSE [error |-> "encode failed"]
            /\ Log(<<Call("read_audio_file", ok), Call("sf_read", TRUE)>>)
    /\ pc' = "encode"
    /\ UNCHANGED <<adapter, argv, cuda, params, model, feature_list, stdout, exit_code>>

\* adapter 2 load_model, lines 8-16, called at line 76 inside main's try
load_model_wav2vec2 ==
    /\ pc = "load_model" /\ adapter = 2
    /\ \/ /\ model' = [device |-> Device(cuda)]
          /\ Log(<<Call("load_model", TRUE)>>)
          /\ pc' = IF argv.operation = "process"
                   THEN "process_audio" ELSE "analyze_audio"
          /\ UNCHANGED <<stdout, exit_code>>
       \/ /\ Log(<<Call("load_model", FALSE), Call("print", TRUE)>>)
          /\ ExceptHandler("load failed")
          /\ UNCHANGED model
    /\ UNCHANGED <<adapter, argv, cuda, params, result, downstream, feature_list>>

\* adapter 2 process_audio, lines 18-39: the array from sf.read goes to the
\* processor as read
process_audio ==
    /\ pc = "process_audio"
    /\ \/ /\ Log(<<Call("process_audio", FALSE), Call("sf_read", FALSE),
                   Call("print", TRUE)>>)
          /\ ExceptHandler("read failed")
          /\ UNCHANGED <<result, downstream>>
       \/ \E audio \in AudioArrays :
            /\ downstream' = audio
            /\ \/ /\ result' = [transcription |-> "text", confidence |-> "max_logit"]
                  /\ Log(<<Call("process_audio", TRUE), Call("sf_read", TRUE)>>)
                  /\ pc' = "encode"
                  /\ UNCHANGED <<stdout, exit_code>>
               \/ /\ Log(<<Call("process_audio", FALSE), Call("sf_read", TRUE),
                           Call("print", TRUE)>>)
                  /\ ExceptHandler("forward failed")
                  /\ UNCHANGED result
    /\ UNCHANGED <<adapter, argv, cuda, params, model, feature_list>>

\* adapter 2 analyze_audio, lines 41-64
analyze_audio ==
    /\ pc = "analyze_audio"
    /\ \/ /\ Log(<<Call("analyze_audio", FALSE), Call("sf_read", FALSE),
                   Call("print", TRUE)>>)
          /\ ExceptHandler("read failed")
          /\ UNCHANGED <<result, downstream, feature_list>>
       \/ \E audio \in AudioArrays :
            /\ downstream' = audio
            /\ \/ \E pooled \in FeatureVectors :
                    /\ feature_list' = pooled
                    /\ result' = [features |-> Slice(pooled, FeatureSample),
                                  feature_count |-> Len(pooled)]
                    /\ Log(<<Call("analyze_audio", TRUE), Call("sf_read", TRUE)>>)
                    /\ pc' = "encode"
                    /\ UNCHANGED <<stdout, exit_code>>
               \/ /\ Log(<<Call("analyze_audio", FALSE), Call("sf_read", TRUE),
                           Call("print", TRUE)>>)
                  /\ ExceptHandler("forward failed")
                  /\ UNCHANGED <<result, feature_list>>
    /\ UNCHANGED <<adapter, argv, cuda, params, model>>

\* adapter 1 lines 189-193, adapter 2 lines 84-88: tag the result, print it,
\* return from main
Encode ==
    /\ pc = "encode"
    /\ result' = InjectRequestId(result, argv.request_id)
    /\ Emit(InjectRequestId(result, argv.request_id))
    /\ Log(<<Call("print", TRUE)>>)
    /\ exit_code' = NormalExit
    /\ pc' = "exiting"
    /\ UNCHANGED <<adapter, argv, cuda, params, model, downstream, feature_list>>

\* the process ends with the status decided above
Exit ==
    /\ pc = "exiting"
    /\ pc' = "exited"
    /\ Log(<<Call("exit", TRUE)>>)
    /\ UNCHANGED <<adapter, argv, cuda, params, model, result, downstream,
                   feature_list, stdout, exit_code>>

Next ==
    \/ ParseArgs
    \/ ParseParams
    \/ Dispatch
    \/ load_model_audioldm
    \/ test_environment
    \/ generate_audio
    \/ read_audio_file
    \/ load_model_wav2vec2
    \/ process_audio
    \/ analyze_audio
    \/ Encode
    \/ Exit

Spec == Init /\ [][Next]_vars

----------------------------------------------------------------------------
(* Vocabulary of the properties *)

Exited == pc = "exited"

\* positions of the calls of one name in the run so far
Calls(name) == {i \in 1..Len(trace) : trace[i].call = name}

Called(name) == Calls(name) # {}

Succeeded(name) == \E i \in Calls(name) : trace[i].ok

AllOk == \A i \in 1..Len(trace) : trace[i].ok

\* the closed operation sets of the command-line surface
ClosedSet(a) ==
    IF a = 1 THEN {"test-env", "load-model", "generate", "read-audio"}
    ELSE {"process", "analyze"}

Handlers ==
    {"test_environment", "generate_audio", "read_audio_file",
     "process_audio", "analyze_audio"}

HasError(obj) == "error" \in DOMAIN obj

\* a pipeline failure: parameters, model load, handler, file I/O
PipelineFailed ==
    \E i \in 1..Len(trace) :
        /\ ~trace[i].ok
        /\ trace[i].call \in
             {"json_loads", "params_get", "load_model", "sf_read"} \cup Handlers

\* position of a call in the order parse, load, execute, encode, exit
Stage(call) ==
    CASE call = "parse_args" -> 1
      [] call = "json_loads" -> 2
      [] call = "params_get" -> 3
      [] call = "load_model" -> 4
      [] call \in Handlers   -> 5
      [] call = "sf_read"    -> 6
      [] call = "print"      -> 7
      [] call = "exit"       -> 8

----------------------------------------------------------------------------
\* C1: whatever the outcome of an invocation of either adapter, exactly one
\* JSON object has been written to standard output when the process exits.
C1_ExactlyOneObject == Exited => Len(stdout) = 1

\* C2: after any pipeline failure every object on standard output has the
\* shape {error, request_id} with the caller's request id: no error object is
\* emitted without the request id.
C2_ErrorCarriesRequestId ==
    (Exited /\ PipelineFailed) =>
        \A i \in 1..Len(stdout) :
            /\ DOMAIN stdout[i] = {"error", "request_id"}
            /\ stdout[i].request_id = argv.request_id

\* C3: the exit code is 1 whenever the emitted envelope has an "error" key and
\* 0 whenever it has none.
C3_ExitCodeMatchesEnvelope ==
    Exited =>
        \A i \in 1..Len(stdout) :
            exit_code = IF HasError(stdout[i]) THEN 1 ELSE 0

\* C4: adapter 1 with a valid operation and a --params text that is not JSON
\* emits one error envelope, exits 1, and calls neither load_model nor a handler.
C4_MalformedParamsEnvelope ==
    (Exited /\ adapter = 1 /\ argv.operation \in ClosedSet(1)
        /\ argv.params.json = "malformed") =>
            /\ Len(stdout) = 1
            /\ HasError(stdout[1])
            /\ exit_code = 1
            /\ ~Called("load_model")
            /\ \A h \in Handlers : ~Called(h)

\* C5: with an --operation outside the adapter's closed set, load_model is
\* never called and the process exits with a non-zero status.
C5_BadOperationRejected ==
    argv.operation \notin ClosedSet(adapter) =>
        /\ ~Called("load_model")
        /\ Exited => exit_code # 0

C5_Witness ==
    /\ Exited
    /\ argv.operation \notin ClosedSet(adapter)
    /\ trace = <<Call("parse_args", FALSE), Call("exit", TRUE)>>

\* C6: a run with a valid operation in which every step succeeds emits exactly
\* one JSON object, without an "error" key, whose request_id is the
\* --request-id given, and exits 0.
C6_SuccessEnvelope ==
    (Exited /\ argv.operation \in ClosedSet(adapter) /\ AllOk) =>
        /\ Len(stdout) = 1
        /\ ~HasError(stdout[1])
        /\ "request_id" \in DOMAIN stdout[1]
        /\ stdout[1].request_id = argv.request_id
        /\ exit_code = 0

C6_Witness ==
    /\ Exited /\ AllOk
    /\ argv.operation = "generate"
    /\ Succeeded("load_model") /\ Succeeded("generate_audio")
    /\ Len(stdout) = 1

\* C7: in adapter 1's load_model, half precision is applied iff
\* use_half_precision is true, quantization is 'none' and the device is cuda; a
\* quantization config is built only for '8bit' or '4bit'; the two are never
\* both applied to one handle.
C7_HalfXorQuantization ==
    (adapter = 1 /\ Succeeded("load_model")) =>
        LET quantization == Get(params.value, "quantization", "8bit")
            use_half_precision == Get(params.value, "use_half_precision", TRUE)
        IN  /\ model.half <=>
                  (use_half_precision = TRUE /\ quantization = "none" /\ cuda)
            /\ model.quantization_config # None <=>
                  quantization \in {"8bit", "4bit"}
            /\ ~(model.half /\ model.quantization_config # None)
            /\ model.device = IF cuda THEN "cuda" ELSE "cpu"

C7_Witness ==
    /\ adapter = 1 /\ Succeeded("load_model")
    /\ model.half
    /\ model.quantization_config = None

\* C8: analyze reports feature_count = N, the length of the pooled vector, and
\* features = its first 20 values in order: exactly 20 entries when N >= 20,
\* all N entries when N < 20.
C8_FeatureSample ==
    Succeeded("analyze_audio") =>
        LET N == Len(feature_list) IN
        /\ result.feature_count = N
        /\ Len(result.features) = IF N >= 20 THEN 20 ELSE N
        /\ \A i \in 1..Len(result.features) : result.features[i] = feature_list[i]

C8_Witness ==
    /\ Succeeded("analyze_audio")
    /\ Len(feature_list) > 20
    /\ Len(result.features) = 20
    /\ Exited

\* C9: whenever an operation of either adapter has decoded an audio file, the
\* array handed to the next step is one-dimensional (mono).
C9_MonoBeforeDownstream ==
    Succeeded("sf_read") => downstream.ndim = 1

\* C10: the calls of one run are in the order parse, load, execute, encode,
\* exit, each at most once; adapter 1 calls load_model only for load-model and
\* generate; adapter 2 calls it for both operations, before the file is read.
C10_LinearFlow ==
    /\ \A i, j \in 1..Len(trace) :
          i < j => Stage(trace[i].call) < Stage(trace[j].call)
    /\ Cardinality(Calls("load_model")) <= 1
    /\ Cardinality(UNION {Calls(h) : h \in Handlers}) <= 1
    /\ (adapter = 1 /\ Called("load_model")) =>
          argv.operation \in {"load-model", "generate"}
    /\ (adapter = 1 /\ argv.operation \in {"test-env", "read-audio"}) =>
          ~Called("load_model")
    /\ (adapter = 2 /\ (Called("sf_read") \/ \E h \in Handlers : Called(h))) =>
          Succeeded("load_model")
    /\ (adapter = 2 /\ Exited /\ argv.operation \in ClosedSet(2)) =>
          Called("load_model")

C10_Witness ==
    /\ Exited /\ adapter = 1
    /\ trace = <<Call("parse_args", TRUE), Call("json_loads", TRUE),
                 Call("load_model", TRUE), Call("generate_audio", TRUE),
                 Call("print", TRUE), Call("exit", TRUE)>>

====
